---- MODULE Spec2Model ----
(***************************************************************************)
(* Model of meal_prep's Mongo+Redis meal store (internal/mongo/store.go):  *)
(* New, ImportFromFile and GetMealByID, with the Mongo collection "meals", *)
(* the Redis cache, the wall clock and the availability of both services   *)
(* as state.                                                               *)
(***************************************************************************)
EXTENDS Integers, Sequences, FiniteSets, TLC

\* ------------------------------------------------------------------ bounds
\* Longest meals file (number of records) an import reads.
MaxBatch == 2
\* Number of ImportFromFile calls in one behaviour.
MaxImports == 2
\* The clock stops advancing at this many hours.
MaxClock == 24
\* Hours the clock advances in one Tick.
TickHours == 12
\* Longest measure string parseMeasure is given, in fragments.
MaxParts == 4
\* Number of recipe handler calls in one behaviour.
MaxRequests == 2
\* Most ingredients in the body of one import request.
MaxIngredients == 2

\* ------------------------------------------------------- program constants
\* 24*time.Hour, the expiry GetMealByID gives a cache entry.
TTLHours == 24
\* Last numbered strIngredient/strMeasure slot ImportFromFile scans.
MaxSlot == 20

\* ------------------------------------------------------------------ values
\* A scalar value: t is its dynamic type, s its text, n its number.
\* A string whose text is computed from a number (the hex of an ObjectID,
\* the RFC 3339 text of a time) has s = "hex" / "rfc3339" and that number.
Null == [t |-> "null", s |-> "", n |-> 0]
Str(x) == [t |-> "string", s |-> x, n |-> 0]
Num(k) == [t |-> "float64", s |-> "", n |-> k]
ObjectID(k) == [t |-> "ObjectID", s |-> "", n |-> k]
DateTime(k) == [t |-> "DateTime", s |-> "", n |-> k]
HexStr(k) == [t |-> "string", s |-> "hex", n |-> k]
Rfc3339Str(k) == [t |-> "string", s |-> "rfc3339", n |-> k]

\* fmt.Sprint of a float64 holding a small whole number.
Digits == <<"0", "1", "2", "3", "4", "5", "6", "7", "8", "9">>
Sprint(v) == IF v.t = "float64" THEN Digits[v.n + 1] ELSE v.s

\* toString: nil gives "", a string itself, anything else fmt.Sprint.
toString(v) ==
  IF v.t = "null" THEN ""
  ELSE IF v.t = "string" THEN v.s
  ELSE Sprint(v)

mustString(v) == toString(v)

\* ---------------------------------------------------------- meals file
\* A raw record of all_meals.json: the fixed fields, and the numbered fields
\* strIngredient<i> / strMeasure<i> as maps from i to the value, holding the
\* numbers the record has.
RawMeal(id, meal, ings, mss) ==
  [idMeal |-> id, strMeal |-> meal, strCategory |-> Str("Side"),
   strArea |-> Null, strInstructions |-> Str("Mix"), strMealThumb |-> Null,
   strYoutube |-> Null, strIngredient |-> ings, strMeasure |-> mss]

\* m[fmt.Sprintf("strIngredient%d", i)]: nil for a key the map lacks.
Slot(f, i) == IF i \in DOMAIN f THEN f[i] ELSE Null

NoSlots == [i \in {} |-> Null]

MealA1 ==
  RawMeal(Str("52771"), Str("Soup"),
          (1 :> Str("Salt")) @@ (2 :> Str("")) @@ (3 :> Str("Pepper"))
            @@ (21 :> Str("Thyme")),
          (1 :> Str("1 tsp")) @@ (2 :> Str("2 cups")))
MealA2 ==
  RawMeal(Str("52771"), Str("Stew"), (1 :> Str("Salt")) @@ (2 :> Null),
          (1 :> Str("1/2 tsp")) @@ (2 :> Str("1 cup")))
MealB == RawMeal(Str("52772"), Num(7), NoSlots, NoSlots)
MealNoId == RawMeal(Null, Str("Pie"), (1 :> Str("Flour")), NoSlots)

RawMeals == {MealA1, MealA2, MealB, MealNoId}

Batches == UNION {[1..n -> RawMeals] : n \in 0..MaxBatch}

\* Records whose idMeal is the empty string and a number, and the files made
\* of the records without a string id and two records that have one.
MealEmptyId == RawMeal(Str(""), Str("Tart"), (1 :> Str("Egg")), NoSlots)
MealNumId == RawMeal(Num(5), Str("Flan"), NoSlots, NoSlots)

UnkeyedMeals == {MealNoId, MealEmptyId, MealNumId}

UnkeyedBatches == UNION {[1..n -> UnkeyedMeals \cup {MealA1, MealB}] : n \in 0..MaxBatch}

\* The ids GetMealByID is asked for: the stored keys and an unknown one.
Ids == {"52771", "52772", "99999"}

\* ------------------------------------------------- ImportFromFile's document
\* id, _ := m["idMeal"].(string): the empty string unless the value is a string.
\* Variant: an id that is not a string is converted to text.
IdOfConverted(m) == toString(m.idMeal)

\* id, _ := m["idMeal"].(string)
IdOf(m) == IF m.idMeal.t = "string" THEN m.idMeal.s ELSE ""

\* The ingredients slice: slots i..MaxSlot in order, a slot kept when the
\* string of its name is not empty; a recursion over the slot number.
RECURSIVE IngredientsFrom(_, _)

\* Variant: a slot is kept when its name or its measure is not empty.
IngredientsFromKeepingMeasured(m, i) ==
  IF i > MaxSlot THEN <<>>
  ELSE LET inVal == toString(Slot(m.strIngredient, i))
           msVal == toString(Slot(m.strMeasure, i))
       IN (IF inVal # "" \/ msVal # ""
           THEN <<[name |-> Str(inVal), measure |-> Str(msVal)]>>
           ELSE <<>>) \o IngredientsFrom(m, i + 1)

\* for i := 1; i <= 20; i++: the slots from i on.
IngredientsFrom(m, i) ==
  IF i > MaxSlot THEN <<>>
  ELSE LET inVal == toString(Slot(m.strIngredient, i))
           msVal == toString(Slot(m.strMeasure, i))
       IN (IF inVal # ""
           THEN <<[name |-> Str(inVal), measure |-> Str(msVal)]>>
           ELSE <<>>) \o IngredientsFrom(m, i + 1)

\* The ingredients slice of each record of the meals files, computed once.
IngredientsOf == [m \in RawMeals \cup UnkeyedMeals |-> IngredientsFrom(m, 1)]

\* A slice as BSON: a nil slice (nothing appended) is stored as null.
SliceValue(items) ==
  IF items = <<>> THEN [t |-> "null", items |-> <<>>]
  ELSE [t |-> "array", items |-> items]

\* The bson.M built for record m at time now; time.Time is stored as a BSON
\* DateTime.
NormalizedDoc(m, now) ==
  [idMeal |-> Str(IdOf(m)),
   strMeal |-> Str(mustString(m.strMeal)),
   strCategory |-> Str(mustString(m.strCategory)),
   strArea |-> Str(mustString(m.strArea)),
   strInstructions |-> Str(mustString(m.strInstructions)),
   strMealThumb |-> Str(mustString(m.strMealThumb)),
   strYoutube |-> Str(mustString(m.strYoutube)),
   ingredients |-> SliceValue(IngredientsOf[m]),
   raw |-> m,
   updatedAt |-> DateTime(now)]

\* Variant: the update replaces the stored document by doc, keeping its _id.
SetFieldsReplacing(old, doc) ==
  [f \in (DOMAIN doc) \cup {"_id"} |-> IF f \in DOMAIN doc THEN doc[f] ELSE old[f]]

\* {"$set": doc} applied to a stored document: the fields of doc are written,
\* every other field of the stored document is kept.
SetFields(old, doc) ==
  [f \in (DOMAIN old) \cup (DOMAIN doc) |-> IF f \in DOMAIN doc THEN doc[f] ELSE old[f]]

\* The _id the Mongo server generates for the document inserted for id: one
\* ObjectID per document, never changed afterwards.
NewObjectID(id) == ObjectID(IF id = "52771" THEN 1 ELSE 2)

\* UpdateOne(filter {"idMeal": id}, {"$set": doc}, upsert): the matching
\* document is updated, or a new one is inserted from the filter's field, the
\* $set fields and a fresh _id.
UpdateOneUpsert(coll, id, doc) ==
  IF id \in DOMAIN coll
  THEN [coll EXCEPT ![id] = SetFields(@, doc)]
  ELSE coll @@ (id :> SetFields([_id |-> NewObjectID(id), idMeal |-> Str(id)], doc))

\* ------------------------------------------------------------ JSON codec
\* json.Marshal of one top-level value of a decoded document: an ObjectID
\* is written as its hex string, a DateTime as an RFC 3339 string; strings,
\* numbers, null, arrays and nested documents are written as they are.
JsonValue(v) ==
  IF "t" \notin DOMAIN v THEN v
  ELSE IF v.t = "ObjectID" THEN HexStr(v.n)
  ELSE IF v.t = "DateTime" THEN Rfc3339Str(v.n)
  ELSE v

\* json.Marshal(result): the JSON object, field by field.
JsonMarshal(doc) == [f \in DOMAIN doc |-> JsonValue(doc[f])]

\* Bytes in the cache that are not JSON.
Garbage == [notJSON |-> TRUE]

\* json.Unmarshal(b, &out): fails on bytes that are not a JSON object;
\* otherwise every JSON string is a Go string, number a float64, null nil.
JsonUnmarshal(b) ==
  IF b = Garbage THEN [ok |-> FALSE, out |-> [f \in {} |-> Null]]
  ELSE [ok |-> TRUE, out |-> b]

\* key := "meal:" + id
CacheKey(id) == <<"meal:", id>>

\* ------------------------------------------------------------------- state
VARIABLES
  file,       \* the records of the meals file (all_meals.json) on disk
  store,      \* the *Store New returned: made, rdb # nil, log # nil
  meals,      \* the Mongo collection "meals": idMeal -> stored document
  cache,      \* Redis: key -> [val: bytes, exp: hour at which the entry expires]
  populated,  \* history: id -> the document returned by the GetMealByID(id)
              \* call that wrote the current cache entry of id
  clock,      \* time.Now(), in hours
  mongoUp,    \* the Mongo server answers
  redisUp,    \* the Redis server answers
  runs,       \* number of ImportFromFile calls made
  ret,        \* what the call made by the last step returned
  logLine,    \* what the last step wrote to the log
  measure,    \* ImportMealHandler: the Measure of the ingredient being inserted
  qu,         \* ImportMealHandler: the q, u parseMeasure returned for it
  db,         \* the SQLite database: table name -> the committed rows, in rowid order
  req,        \* the request body the last recipe handler call was given
  resp,       \* the response the last recipe handler call wrote
  requests,   \* number of recipe handler calls made
  calls       \* the update requests being served: client -> position, id,
              \* body, the row loaded and the status of the response

\* The variables of the handlers that work on the SQLite database.
sqlvars == <<db, req, resp, requests, calls>>

\* The variables of ImportMealHandler.
hvars == <<measure, qu, sqlvars>>

vars == <<file, store, meals, cache, populated, clock, mongoUp, redisUp, runs, ret, logLine,
          hvars>>

EmptyMap == [k \in {} |-> Null]

\* An error value: the cause and the context wrapped around it ("" when the
\* cause is returned as it is).
Err(ctx, cause) == [ctx |-> ctx, cause |-> cause]
NoErr == Err("", "nil")
MongoErr == Err("", "mongo")

NilDoc == [nil |-> TRUE]
NoStore == [made |-> FALSE, rdb |-> FALSE, log |-> FALSE]
NoRet == [call |-> "none", id |-> "", doc |-> NilDoc, err |-> NoErr,
          findOne |-> FALSE, set |-> FALSE]
NoLog == [msg |-> "", id |-> "", error |-> NoErr]

\* A *string: nil, or a pointer to the characters x.
NilStr == [nil |-> TRUE, s |-> <<>>]
Ptr(x) == [nil |-> FALSE, s |-> x]
NotParsed == [called |-> FALSE, quantity |-> NilStr, unit |-> NilStr]

\* The database after db.Init and before any request, and no response yet.
EmptyDB ==
  [recipes |-> <<>>, recipe_ingredients |-> <<>>, meal_plans |-> <<>>,
   meal_plan_recipes |-> <<>>]
NoResp == [status |-> 0, error |-> "", recipe_id |-> 0, log |-> ""]
NoReq == [title |-> ""]

\* The clients that send update requests, and a client that has sent none.
Clients == {1, 2}
NoCall == [pc |-> "idle", handler |-> "", id |-> 0, body |-> <<>>, current |-> <<>>,
           status |-> 0]
NoCalls == [r \in Clients |-> NoCall]

Init ==
  /\ file \in Batches
  /\ store = NoStore
  /\ meals = EmptyMap
  /\ cache = EmptyMap
  /\ populated = EmptyMap
  /\ clock = 0
  /\ mongoUp = TRUE
  /\ redisUp = TRUE
  /\ runs = 0
  /\ ret = NoRet
  /\ logLine = NoLog
  /\ measure = <<>>
  /\ qu = NotParsed
  /\ db = EmptyDB
  /\ req = NoReq
  /\ resp = NoResp
  /\ requests = 0
  /\ calls = NoCalls

\* ------------------------------------------------------------- environment
\* The Mongo server goes down or comes back.
MongoFlip ==
  /\ mongoUp' = ~mongoUp
  /\ ret' = NoRet
  /\ logLine' = NoLog
  /\ UNCHANGED <<file, store, meals, cache, populated, clock, redisUp, runs, hvars>>

\* The Redis server goes down or comes back.
RedisFlip ==
  /\ redisUp' = ~redisUp
  /\ ret' = NoRet
  /\ logLine' = NoLog
  /\ UNCHANGED <<file, store, meals, cache, populated, clock, mongoUp, runs, hvars>>

\* Time passes; Redis drops the entries whose expiry has been reached.
Live(c, now) == {k \in DOMAIN c : c[k].exp > now}

Tick ==
  /\ clock + TickHours <= MaxClock
  /\ clock' = clock + TickHours
  /\ cache' = [k \in Live(cache, clock') |-> cache[k]]
  /\ populated' = [id \in {x \in DOMAIN populated : CacheKey(x) \in Live(cache, clock')}
                     |-> populated[id]]
  /\ ret' = NoRet
  /\ logLine' = NoLog
  /\ UNCHANGED <<file, store, meals, mongoUp, redisUp, runs, hvars>>

\* --------------------------------------------------------------------- New
\* The logger main passes to New (never nil).
Sugars == {TRUE}

\* Variant: the Redis client is kept when its ping fails.
NewKeepingClient(redisAddr, sugar) ==
  /\ ~store.made
  /\ IF ~mongoUp
     THEN /\ store' = store
          /\ ret' = [NoRet EXCEPT !.call = "New", !.err = MongoErr]
          /\ logLine' = NoLog
     ELSE /\ store' = [made |-> TRUE, rdb |-> (redisAddr # ""), log |-> sugar]
          /\ ret' = [NoRet EXCEPT !.call = "New"]
          /\ logLine' = NoLog
  /\ UNCHANGED <<file, meals, cache, populated, clock, mongoUp, redisUp, runs, hvars>>

\* Variant: the Store is made without waiting for Mongo's answer to the ping.
NewWithoutPing(redisAddr, sugar) ==
  /\ ~store.made
  /\ store' = [made |-> TRUE, rdb |-> (redisAddr # "" /\ redisUp), log |-> sugar]
  /\ ret' = [NoRet EXCEPT !.call = "New"]
  /\ logLine' = NoLog
  /\ UNCHANGED <<file, meals, cache, populated, clock, mongoUp, redisUp, runs, hvars>>

\* New(mongoURI, dbName, redisAddr, sugar): fails when Mongo does not answer
\* the ping; Redis is used only if an address is given and it answers.
New(redisAddr, sugar) ==
  /\ ~store.made
  /\ IF ~mongoUp
     THEN /\ store' = store
          /\ ret' = [NoRet EXCEPT !.call = "New", !.err = MongoErr]
          /\ logLine' = IF sugar
                        THEN [msg |-> "mongo ping failed", id |-> "", error |-> MongoErr]
                        ELSE NoLog
     ELSE /\ store' = [made |-> TRUE, rdb |-> (redisAddr # "" /\ redisUp), log |-> sugar]
          /\ ret' = [NoRet EXCEPT !.call = "New"]
          /\ logLine' = IF sugar /\ redisAddr # "" /\ ~redisUp
                        THEN [msg |-> "redis ping failed; continuing without redis caching",
                              id |-> "", error |-> Err("", "redis")]
                        ELSE NoLog
  /\ UNCHANGED <<file, meals, cache, populated, clock, mongoUp, redisUp, runs, hvars>>

\* ------------------------------------------------------------- GetMealByID
\* Mutant of CacheLookup: an entry is used only while Mongo answers.
CacheLookupNeedsPrimary(id) ==
  LET key == CacheKey(id)
      got == store.rdb /\ redisUp /\ mongoUp /\ key \in DOMAIN cache
      parsed == IF got THEN JsonUnmarshal(cache[key].val)
                ELSE [ok |-> FALSE, out |-> EmptyMap]
  IN [hit |-> got /\ parsed.ok, out |-> parsed.out]

\* Mutant of CacheLookup: the result of json.Unmarshal is not checked.
CacheLookupNoParseCheck(id) ==
  LET key == CacheKey(id)
      got == store.rdb /\ redisUp /\ key \in DOMAIN cache
      parsed == IF got THEN JsonUnmarshal(cache[key].val)
                ELSE [ok |-> FALSE, out |-> EmptyMap]
  IN [hit |-> got, out |-> parsed.out]

\* s.rdb.Get(key).Bytes() then json.Unmarshal: a hit needs a cache client,
\* an answer from Redis, an entry under the key and bytes that parse.
CacheLookup(id) ==
  LET key == CacheKey(id)
      got == store.rdb /\ redisUp /\ key \in DOMAIN cache
      parsed == IF got THEN JsonUnmarshal(cache[key].val)
                ELSE [ok |-> FALSE, out |-> EmptyMap]
  IN [hit |-> got /\ parsed.ok, out |-> parsed.out]

\* Mutant of ReturnCached: a hit writes the entry back with a fresh expiry.
ReturnCachedRefreshing(id, out) ==
  /\ ret' = [call |-> "GetMealByID", id |-> id, doc |-> out, err |-> NoErr,
             findOne |-> FALSE, set |-> FALSE]
  /\ cache' = [cache EXCEPT ![CacheKey(id)].exp = clock + TTLHours]
  /\ UNCHANGED populated

\* return out, nil: nothing else is done on a hit.
ReturnCached(id, out) ==
  /\ ret' = [call |-> "GetMealByID", id |-> id, doc |-> out, err |-> NoErr,
             findOne |-> FALSE, set |-> FALSE]
  /\ UNCHANGED <<cache, populated>>

\* Mutant of FindOne: every error is taken for mongo.ErrNoDocuments.
FindOneAnyErrorNoDocuments(id) ==
  IF ~mongoUp \/ id \notin DOMAIN meals
  THEN [err |-> Err("", "ErrNoDocuments"), noDocuments |-> TRUE, result |-> NilDoc]
  ELSE [err |-> NoErr, noDocuments |-> FALSE, result |-> meals[id]]

\* coll.FindOne(...).Decode(&result): an error when Mongo does not answer,
\* mongo.ErrNoDocuments when no document has the id; the values of a decoded
\* document are the driver's types (ObjectID, DateTime).
FindOne(id) ==
  IF ~mongoUp THEN [err |-> MongoErr, noDocuments |-> FALSE, result |-> NilDoc]
  ELSE IF id \notin DOMAIN meals
  THEN [err |-> Err("", "ErrNoDocuments"), noDocuments |-> TRUE, result |-> NilDoc]
  ELSE [err |-> NoErr, noDocuments |-> FALSE, result |-> meals[id]]

\* Mutant of CacheEntry: the expiry is one hour.
CacheEntryOneHour(result, now) == [val |-> JsonMarshal(result), exp |-> now + 1]

\* s.rdb.Set(key, json.Marshal(result), 24*time.Hour): the entry written when
\* Redis answers.
CacheEntry(result, now) == [val |-> JsonMarshal(result), exp |-> now + TTLHours]

\* The path after a miss: read Mongo, then write the cache, ignoring a failure.
ReadThrough(id) ==
  LET found == FindOne(id)
      key == CacheKey(id)
  IN IF found.err # NoErr
     THEN /\ ret' = [call |-> "GetMealByID", id |-> id, doc |-> NilDoc,
                     err |-> IF found.noDocuments THEN NoErr ELSE found.err,
                     findOne |-> TRUE, set |-> FALSE]
          /\ UNCHANGED <<cache, populated>>
     ELSE /\ ret' = [call |-> "GetMealByID", id |-> id, doc |-> found.result,
                     err |-> NoErr, findOne |-> TRUE, set |-> store.rdb]
          /\ IF store.rdb /\ redisUp
             THEN /\ cache' = (key :> CacheEntry(found.result, clock)) @@ cache
                  /\ populated' = (id :> found.result) @@ populated
             ELSE UNCHANGED <<cache, populated>>

GetMealByID(id) ==
  /\ store.made
  /\ LET look == CacheLookup(id)
     IN IF look.hit THEN ReturnCached(id, look.out) ELSE ReadThrough(id)
  /\ logLine' = NoLog
  /\ UNCHANGED <<file, store, meals, clock, mongoUp, redisUp, runs, hvars>>

\* ---------------------------------------------------------- ImportFromFile
\* os.Open, io.ReadAll, json.Unmarshal: the file is read whole before the
\* first upsert; fileErr names the step that failed, "" when none did.
FileErrs == {"", "open file", "read file", "unmarshal"}

\* Variant: the returned error is wrapped with the id of the record.
UpsertErrorWithKey(id) == Err(id, "mongo")

\* return err after a failed UpdateOne: the error the driver gave.
UpsertError(id) == MongoErr

\* s.log.Errorw("failed to upsert meal", "id", id, "error", err)
UpsertLog(id, err) ==
  IF store.log THEN [msg |-> "failed to upsert meal", id |-> id, error |-> err]
  ELSE NoLog

\* for _, m := range raw: the loop is a recursion over the index of the record.
RECURSIVE ImportLoop(_, _, _, _, _)

\* Variant: a failed upsert deletes what the run has upserted before it.
ImportLoopCompensating(coll, batch, i, now, downAt) ==
  IF i > Len(batch)
  THEN [coll |-> coll, err |-> NoErr, log |-> NoLog]
  ELSE LET m == batch[i]
           id == IdOf(m)
       IN IF id = ""
          THEN ImportLoop(coll, batch, i + 1, now, downAt)
          ELSE IF i >= downAt
          THEN [coll |-> [k \in (DOMAIN coll) \ {IdOf(batch[j]) : j \in 1..(i - 1)}
                           |-> coll[k]],
                err |-> UpsertError(id), log |-> UpsertLog(id, MongoErr)]
          ELSE ImportLoop(UpdateOneUpsert(coll, id, NormalizedDoc(m, now)),
                          batch, i + 1, now, downAt)

\* Variant: a record without a string id ends the loop instead of being skipped.
ImportLoopStoppingAtNoId(coll, batch, i, now, downAt) ==
  IF i > Len(batch)
  THEN [coll |-> coll, err |-> NoErr, log |-> NoLog]
  ELSE LET m == batch[i]
           id == IdOf(m)
       IN IF id = ""
          THEN [coll |-> coll, err |-> NoErr, log |-> NoLog]
          ELSE IF i >= downAt
          THEN [coll |-> coll, err |-> UpsertError(id),
                log |-> UpsertLog(id, MongoErr)]
          ELSE ImportLoop(UpdateOneUpsert(coll, id, NormalizedDoc(m, now)),
                          batch, i + 1, now, downAt)

\* The loop over the records from index i on, Mongo answering the upserts of
\* the records before index downAt only: a record without a string id is
\* skipped, a failed upsert ends the run, and what was upserted stays.
ImportLoop(coll, batch, i, now, downAt) ==
  IF i > Len(batch)
  THEN [coll |-> coll, err |-> NoErr, log |-> NoLog]
  ELSE LET m == batch[i]
           id == IdOf(m)
       IN IF id = ""
          THEN ImportLoop(coll, batch, i + 1, now, downAt)
          ELSE IF i >= downAt
          THEN [coll |-> coll, err |-> UpsertError(id),
                log |-> UpsertLog(id, MongoErr)]
          ELSE ImportLoop(UpdateOneUpsert(coll, id, NormalizedDoc(m, now)),
                          batch, i + 1, now, downAt)

\* Variant: a successful run also drops the cache entries.
ImportFromFileInvalidating(fileErr, downAt) ==
  /\ store.made
  /\ runs < MaxImports
  /\ runs' = runs + 1
  /\ downAt \in 1..(Len(file) + 1)
  /\ ~mongoUp => downAt = 1
  /\ IF fileErr # ""
     THEN /\ ret' = [NoRet EXCEPT !.call = "ImportFromFile", !.err = Err(fileErr, "os")]
          /\ logLine' = NoLog
          /\ UNCHANGED <<meals, mongoUp, cache, populated>>
     ELSE LET run == ImportLoop(meals, file, 1, clock, downAt)
          IN /\ meals' = run.coll
             /\ ret' = [NoRet EXCEPT !.call = "ImportFromFile", !.err = run.err]
             /\ logLine' = run.log
             /\ mongoUp' = (mongoUp /\ downAt > Len(file))
             /\ cache' = IF run.err = NoErr THEN EmptyMap ELSE cache
             /\ populated' = IF run.err = NoErr THEN EmptyMap ELSE populated
  /\ UNCHANGED <<file, store, clock, redisUp, hvars>>

\* ImportFromFile(path): the file is read; downAt is the index of the record
\* at whose upsert Mongo has stopped answering (Len(file) + 1: it answers to
\* the end).
ImportFromFile(fileErr, downAt) ==
  /\ store.made
  /\ runs < MaxImports
  /\ runs' = runs + 1
  /\ downAt \in 1..(Len(file) + 1)
  /\ ~mongoUp => downAt = 1
  /\ IF fileErr # ""
     THEN /\ ret' = [NoRet EXCEPT !.call = "ImportFromFile", !.err = Err(fileErr, "os")]
          /\ logLine' = NoLog
          /\ UNCHANGED <<meals, mongoUp>>
     ELSE LET run == ImportLoop(meals, file, 1, clock, downAt)
          IN /\ meals' = run.coll
             /\ ret' = [NoRet EXCEPT !.call = "ImportFromFile", !.err = run.err]
             /\ logLine' = run.log
             /\ mongoUp' = (mongoUp /\ downAt > Len(file))
  /\ UNCHANGED <<file, store, cache, populated, clock, redisUp, hvars>>

\* ----------------------------------------------------------- specification
Next ==
  \/ MongoFlip
  \/ RedisFlip
  \/ Tick
  \/ \E redisAddr \in {"", "redis:6379"}, sugar \in Sugars : New(redisAddr, sugar)
  \/ \E id \in Ids : GetMealByID(id)
  \/ \E fileErr \in FileErrs \ {""} : ImportFromFile(fileErr, 1)
  \/ \E downAt \in 1..(MaxBatch + 1) : ImportFromFile("", downAt)

Spec == Init /\ [][Next]_vars

\* The same program started on a Mongo collection and a Redis that another
\* writer has used: a document of meal 52771 that carries a field the importer
\* does not write, and bytes under its cache key that are not JSON.
LegacyDoc ==
  [_id |-> NewObjectID("52771"), idMeal |-> Str("52771"), strMeal |-> Str("Broth"),
   strTags |-> Str("Soup")]

InitShared ==
  /\ file \in Batches
  /\ store = NoStore
  /\ meals = ("52771" :> LegacyDoc)
  /\ cache = (CacheKey("52771") :> [val |-> Garbage, exp |-> TTLHours])
  /\ populated = EmptyMap
  /\ clock = 0
  /\ mongoUp = TRUE
  /\ redisUp = TRUE
  /\ runs = 0
  /\ ret = NoRet
  /\ logLine = NoLog
  /\ measure = <<>>
  /\ qu = NotParsed
  /\ db = EmptyDB
  /\ req = NoReq
  /\ resp = NoResp
  /\ requests = 0
  /\ calls = NoCalls

SpecShared == InitShared /\ [][Next]_vars

\* The importer alone, with the store made, on a file that has records
\* without a string id, and a collection that is empty or holds a document
\* stored before.
InitUnkeyed ==
  /\ file \in UnkeyedBatches
  /\ store = [made |-> TRUE, rdb |-> FALSE, log |-> TRUE]
  /\ meals \in {EmptyMap, ("52771" :> LegacyDoc)}
  /\ cache = EmptyMap
  /\ populated = EmptyMap
  /\ clock = 0
  /\ mongoUp = TRUE
  /\ redisUp = TRUE
  /\ runs = 0
  /\ ret = NoRet
  /\ logLine = NoLog
  /\ measure = <<>>
  /\ qu = NotParsed
  /\ db = EmptyDB
  /\ req = NoReq
  /\ resp = NoResp
  /\ requests = 0
  /\ calls = NoCalls

NextUnkeyed ==
  \/ \E fileErr \in FileErrs \ {""} : ImportFromFile(fileErr, 1)
  \/ \E downAt \in 1..(MaxBatch + 1) : ImportFromFile("", downAt)

SpecUnkeyed == InitUnkeyed /\ [][NextUnkeyed]_vars


\* ================================================================== claims
\* The document a cache hit returns for id: the parsed bytes of its entry.
CachedDoc(id) == JsonUnmarshal(cache[CacheKey(id)].val).out

\* The cache is configured, answers, and holds parseable bytes for id.
UsableEntry(id) ==
  /\ store.rdb
  /\ redisUp
  /\ CacheKey(id) \in DOMAIN cache
  /\ JsonUnmarshal(cache[CacheKey(id)].val).ok

Absent(r) == r.doc = NilDoc /\ r.err = NoErr

\* C1: when the cache is configured and holds a deserializable entry for the
\* key, GetMealByID returns that entry, does not read the primary store, and
\* leaves the cache as it was: the entry is not rewritten and its expiry is
\* not changed.
C1_HitReturnsEntryUntouched ==
  [][\A id \in Ids :
       (GetMealByID(id) /\ UsableEntry(id))
       => /\ ret'.doc = CachedDoc(id)
          /\ ret'.err = NoErr
          /\ ~ret'.findOne
          /\ ~ret'.set
          /\ cache' = cache
          /\ meals' = meals]_vars

\* C1 witness: a call was served from an entry written at an earlier hour, and
\* the entry still has the expiry it was written with.
C1_Witness ==
  /\ ret.call = "GetMealByID"
  /\ ~ret.findOne
  /\ ret.doc # NilDoc
  /\ CacheKey(ret.id) \in DOMAIN cache
  /\ cache[CacheKey(ret.id)].exp < clock + TTLHours

\* C2: when GetMealByID misses the cache and the primary store holds a
\* document for the id, it returns that document without error; with a cache
\* configured it attempts the write, and when Redis answers the entry is the
\* marshalled document expiring 24 hours later; when the write fails or the
\* cache is disabled the cache is unchanged and the same document is returned.
C2_MissPopulatesBestEffort ==
  [][\A id \in Ids :
       (GetMealByID(id) /\ ~UsableEntry(id) /\ mongoUp /\ id \in DOMAIN meals)
       => /\ ret'.doc = meals[id]
          /\ ret'.err = NoErr
          /\ ret'.set = store.rdb
          /\ (store.rdb /\ redisUp)
               => /\ DOMAIN cache' = DOMAIN cache \cup {CacheKey(id)}
                  /\ cache'[CacheKey(id)] =
                       [val |-> JsonMarshal(meals[id]), exp |-> clock + 24]
                  /\ \A k \in DOMAIN cache \ {CacheKey(id)} : cache'[k] = cache[k]
          /\ ~(store.rdb /\ redisUp) => cache' = cache]_vars

\* C2 witness: the cache write was attempted while Redis was down, and the
\* document was returned without error.
C2_Witness ==
  /\ ret.call = "GetMealByID"
  /\ ret.set
  /\ ~redisUp
  /\ ret.doc # NilDoc
  /\ ret.err = NoErr
  /\ CacheKey(ret.id) \notin DOMAIN cache

\* Two documents with the same JSON text.
SameJson(a, b) == JsonMarshal(a) = JsonMarshal(b)

C4_AbsentOnlyFromPrimary ==
  [][\A id \in Ids :
       GetMealByID(id)
       => /\ Absent(ret') => (ret'.findOne /\ mongoUp /\ id \notin DOMAIN meals)
          /\ id \in DOMAIN meals => ~Absent(ret')
          /\ (ret'.findOne /\ mongoUp /\ id \notin DOMAIN meals) => Absent(ret')]_vars

\* C4 witness: with a cache configured and answering, a call for an id the
\* primary store does not hold returned absent.
C4_Witness ==
  /\ ret.call = "GetMealByID"
  /\ Absent(ret)
  /\ ret.findOne
  /\ store.rdb
  /\ redisUp
  /\ ret.id \notin DOMAIN meals

\* C5: GetMealByID returns an error exactly when the cache gave no usable
\* entry and the primary store failed to answer; the error is the primary
\* store's; a Redis that does not answer or an entry that does not parse
\* gives what a miss gives.
C5_ErrorOnlyFromPrimary ==
  [][\A id \in Ids :
       GetMealByID(id)
       => /\ (ret'.err # NoErr) <=> (~UsableEntry(id) /\ ~mongoUp)
          /\ ret'.err \in {NoErr, MongoErr}
          /\ ~UsableEntry(id)
               => /\ ret'.findOne
                  /\ ret'.doc = IF mongoUp /\ id \in DOMAIN meals THEN meals[id]
                                ELSE NilDoc]_vars

\* C5 witness: the entry of the id does not parse, Redis answers, Mongo does
\* not, and the call returned Mongo's error.
C5_Witness ==
  /\ ret.call = "GetMealByID"
  /\ ret.err = MongoErr
  /\ store.rdb
  /\ redisUp
  /\ CacheKey(ret.id) \in DOMAIN cache
  /\ cache[CacheKey(ret.id)].val = Garbage

\* ------------------------------------------------- claims on ImportFromFile
Min(S) == CHOOSE x \in S : \A y \in S : x <= y

Max(S) == CHOOSE x \in S : \A y \in S : y <= x

\* The indexes from index from on of the records that have a string id.
Keyed(batch, from) == {j \in from..Len(batch) : IdOf(batch[j]) # ""}

\* The index of the record whose upsert fails when Mongo stops answering at
\* index downAt: the first record from there on that is not skipped.
Fails(downAt) == Keyed(file, downAt) # {}

FailingIndex(downAt) == Min(Keyed(file, downAt))

\* The number of records of the file the run gets past.
Passed(downAt) == IF Fails(downAt) THEN FailingIndex(downAt) - 1 ELSE Len(file)

\* The ids of the first n records, and the last of them that has id k.
KeysOf(batch, n) == {IdOf(batch[j]) : j \in 1..n} \ {""}

LastWith(batch, k, n) == batch[Max({j \in 1..n : IdOf(batch[j]) = k})]

\* C6 as claimed: when the file holds one record and the document stored under
\* its id is the one an import of this file has stored, importing the file
\* again leaves that document identical, field for field.
C6_ReimportLeavesDocumentIdentical ==
  [][(/\ Len(file) = 1
      /\ ImportFromFile("", Len(file) + 1)
      /\ IdOf(file[1]) \in DOMAIN meals
      /\ meals[IdOf(file[1])].raw = file[1])
     => meals'[IdOf(file[1])] = meals[IdOf(file[1])]]_vars

C8_FailureKeepsEarlierUpserts ==
  [][\A downAt \in 1..MaxBatch :
       (ImportFromFile("", downAt) /\ Fails(downAt))
       => LET n == FailingIndex(downAt) - 1
          IN /\ ret'.err # NoErr
             /\ DOMAIN meals' = (DOMAIN meals) \cup KeysOf(file, n)
             /\ \A k \in KeysOf(file, n) :
                  LET doc == NormalizedDoc(LastWith(file, k, n), clock)
                  IN \A f \in DOMAIN doc : meals'[k][f] = doc[f]
             /\ \A k \in (DOMAIN meals) \ KeysOf(file, n) : meals'[k] = meals[k]]_vars

\* C8 witness: the first run on an empty collection failed at its second
\* record, and the document of the first record is stored.
C8_Witness ==
  /\ runs = 1
  /\ ret.call = "ImportFromFile"
  /\ ret.err # NoErr
  /\ Len(file) = 2
  /\ DOMAIN meals = {IdOf(file[1])}
  /\ IdOf(file[2]) \notin DOMAIN meals

Perms(batch) ==
  {p \in [1..Len(batch) -> {batch[j] : j \in 1..Len(batch)}] :
     \A m \in RawMeals :
       Cardinality({j \in 1..Len(batch) : p[j] = m})
         = Cardinality({j \in 1..Len(batch) : batch[j] = m})}

\* No two different records of the batch have the same id.
ConflictFree(batch) ==
  \A i, j \in Keyed(batch, 1) : IdOf(batch[i]) = IdOf(batch[j]) => batch[i] = batch[j]

StringKeys(batch, from) ==
  {batch[j].idMeal.s : j \in {i \in from..Len(batch) : batch[i].idMeal.t = "string"}} \ {""}

\* C23: a record whose idMeal is missing, empty or not a string is skipped.
\* A run writes under no key but the non-empty string ids of the file and
\* returns an error only if a record with such an id is at or after the
\* place where Mongo stops answering; a run that returns no error leaves a
\* document for exactly the keys stored before and the non-empty string ids
\* of the file, each made from a record of that id.
C23_UnkeyedRecordsAreSkipped ==
  [][\A downAt \in 1..(MaxBatch + 1) :
       ImportFromFile("", downAt)
       => /\ DOMAIN meals' \subseteq DOMAIN meals \cup StringKeys(file, 1)
          /\ \A k \in DOMAIN meals \ StringKeys(file, 1) : meals'[k] = meals[k]
          /\ ret'.err # NoErr => StringKeys(file, downAt) # {}
          /\ ret'.err = NoErr
             => /\ DOMAIN meals' = DOMAIN meals \cup StringKeys(file, 1)
                /\ \A k \in StringKeys(file, 1) : meals'[k].raw.idMeal = Str(k)]_vars

\* C23 witness: a run over a file of two records, the first without a string
\* id, on a collection that held a document, returned no error and left
\* that document and the document of the second record.
C23_Witness ==
  /\ ret.call = "ImportFromFile"
  /\ ret.err = NoErr
  /\ Len(file) = 2
  /\ file[1] \in UnkeyedMeals
  /\ file[2] = MealB
  /\ DOMAIN meals = {"52771", "52772"}
  /\ "raw" \notin DOMAIN meals["52771"]

\* ---------------------------------------------- claims on the cache and New
\* C11: the cache is written by the populate step of GetMealByID only.
\* ImportFromFile leaves every entry as it is; a step that changes the cache
\* is a GetMealByID that read the document from the primary store and wrote
\* its JSON with a 24-hour expiry, or the expiry of entries; so every entry
\* is the JSON of the document the primary store held when it was read.
C11_CacheWrittenOnlyByPopulate ==
  [][/\ \A fileErr \in FileErrs, downAt \in 1..(MaxBatch + 1) :
          ImportFromFile(fileErr, downAt) => cache' = cache
     /\ cache' # cache
          => \/ \E id \in Ids :
                  /\ GetMealByID(id)
                  /\ ret'.findOne
                  /\ id \in DOMAIN meals
                  /\ cache' = (CacheKey(id) :> [val |-> JsonMarshal(meals[id]),
                                                 exp |-> clock + TTLHours]) @@ cache
             \/ /\ Tick
                /\ DOMAIN cache' \subseteq DOMAIN cache
                /\ \A k \in DOMAIN cache' : cache'[k] = cache[k]
                /\ \A k \in (DOMAIN cache) \ (DOMAIN cache') : cache[k].exp <= clock'
     /\ \A id \in Ids :
          CacheKey(id) \in DOMAIN cache'
          => /\ id \in DOMAIN populated'
             /\ cache'[CacheKey(id)].val = JsonMarshal(populated'[id])]_vars

\* C11 witness: an import has just changed the stored document of a meal
\* whose cache entry is still there, holding the document read earlier.
C11_Witness ==
  /\ ret.call = "ImportFromFile"
  /\ ret.err = NoErr
  /\ \E id \in Ids :
       /\ CacheKey(id) \in DOMAIN cache
       /\ id \in DOMAIN meals
       /\ cache[CacheKey(id)].val # JsonMarshal(meals[id])

\* The addresses main may pass to New: none, or the address of the Redis.
RedisAddrs == {"", "redis:6379"}

\* C12 as claimed: when Mongo answers and Redis does not (or no address is
\* given), New returns a Store with the cache disabled; the Store never
\* changes afterwards; and every GetMealByID made with the cache disabled
\* reads the primary store and returns without error.
C12_DisabledCacheReadsSucceed ==
  [][/\ \A redisAddr \in RedisAddrs, sugar \in Sugars :
          (New(redisAddr, sugar) /\ mongoUp /\ (redisAddr = "" \/ ~redisUp))
          => /\ store'.made
             /\ ~store'.rdb
             /\ ret'.err = NoErr
     /\ store.made => store' = store
     /\ \A id \in Ids :
          (GetMealByID(id) /\ ~store.rdb)
          => /\ ret'.findOne
             /\ ret'.err = NoErr]_vars

\* C12 amended: the same, except that a GetMealByID made with the cache
\* disabled returns what the primary store gives: the document or absent
\* when Mongo answers, Mongo's error when it does not; Redis is neither read
\* nor written.
C12_DisabledCacheReadsPrimary ==
  [][/\ \A redisAddr \in RedisAddrs, sugar \in Sugars :
          (New(redisAddr, sugar) /\ mongoUp /\ (redisAddr = "" \/ ~redisUp))
          => /\ store'.made
             /\ ~store'.rdb
             /\ ret'.err = NoErr
     /\ store.made => store' = store
     /\ \A id \in Ids :
          (GetMealByID(id) /\ ~store.rdb)
          => /\ ret'.findOne
             /\ ~ret'.set
             /\ cache' = cache
             /\ ret'.err = IF mongoUp THEN NoErr ELSE MongoErr
             /\ ret'.doc = IF mongoUp /\ id \in DOMAIN meals THEN meals[id]
                           ELSE NilDoc]_vars

\* C12 witness: with the cache disabled and Redis answering again, a call
\* returned the document from the primary store and wrote no entry.
C12_Witness ==
  /\ store.made
  /\ ~store.rdb
  /\ redisUp
  /\ ret.call = "GetMealByID"
  /\ ret.findOne
  /\ ~ret.set
  /\ ret.doc # NilDoc
  /\ cache = EmptyMap

\* C13: when Mongo does not answer, New returns an error and no Store,
\* whatever address is given and whether or not Redis answers; a Store comes
\* to exist only by a New made while Mongo answers.
C13_NoStoreWithoutPrimary ==
  [][/\ \A redisAddr \in RedisAddrs, sugar \in Sugars :
          (New(redisAddr, sugar) /\ ~mongoUp)
          => /\ ret'.err = MongoErr
             /\ ~store'.made
             /\ store' = store
     /\ (~store.made /\ store'.made)
          => /\ mongoUp
             /\ \E redisAddr \in RedisAddrs, sugar \in Sugars : New(redisAddr, sugar)]_vars

\* C13 witness: New was given a Redis that answers and returned Mongo's error;
\* there is no Store.
C13_Witness ==
  /\ ret.call = "New"
  /\ ret.err = MongoErr
  /\ ~store.made
  /\ redisUp
  /\ ~mongoUp

\* ------------------------------------------------ claim on the ingredients
\* The slots 1..20 of record m whose name is there and not empty.
KeptSlots(m) ==
  {i \in 1..20 : /\ i \in DOMAIN m.strIngredient
                 /\ m.strIngredient[i] # Null
                 /\ m.strIngredient[i] # Str("")}

\* The j-th smallest number of S.
Nth(S, j) == CHOOSE x \in S : Cardinality({y \in S : y <= x}) = j

\* The measure text of slot i: empty when the record has none.
MeasureText(m, i) ==
  IF i \in DOMAIN m.strMeasure /\ m.strMeasure[i].t = "string" THEN m.strMeasure[i].s
  ELSE ""

\* C20: the ingredients of a stored document are, in increasing slot order,
\* one {name, measure} entry for each slot 1..20 of the record whose name is
\* there and not empty, with the measure of that slot (empty when it has
\* none); nothing else is in the list, which is stored as null when empty.
C20_IngredientsAreNamedSlots ==
  \A k \in DOMAIN meals :
    "raw" \in DOMAIN meals[k]
    => LET m == meals[k].raw
           list == meals[k].ingredients
           kept == KeptSlots(m)
       IN /\ Len(list.items) = Cardinality(kept)
          /\ \A j \in 1..Cardinality(kept) :
               list.items[j] = [name |-> m.strIngredient[Nth(kept, j)],
                                measure |-> Str(MeasureText(m, Nth(kept, j)))]
          /\ list.t = IF kept = {} THEN "null" ELSE "array"

\* C20 witness: the stored document of a record that has a named slot with a
\* measure, an unnamed slot with a measure, a named slot without measure and
\* a slot 21 has two ingredients.
C20_Witness ==
  \E k \in DOMAIN meals :
    /\ "raw" \in DOMAIN meals[k]
    /\ meals[k].raw = MealA1
    /\ Len(meals[k].ingredients.items) = 2
    /\ meals[k].ingredients.items[2].measure = Str("")

\* =========================================================== parseMeasure
\* The helper of ImportMealHandler that splits the Measure of an ingredient
\* into quantity and unit. A Go string is the sequence of its characters.

\* The measure strings given to it: up to MaxParts fragments, each a digit,
\* the tail of a fraction or of a decimal, a blank, a line feed, a
\* parenthesis, the word "or" between blanks in either case, or a letter.
MeasureParts ==
  {<<"1">>, <<"/", "2">>, <<".", "5">>, <<" ">>, <<"\n">>, <<"(">>,
   <<" ", "o", "r", " ">>, <<" ", "O", "R", " ">>, <<"c">>}

RECURSIVE Concat(_)
Concat(ps) == IF ps = <<>> THEN <<>> ELSE Head(ps) \o Concat(Tail(ps))

Measures == {Concat(ps) : ps \in UNION {[1..n -> MeasureParts] : n \in 0..MaxParts}}

\* Variant: a dot counts as a digit.
DigitClassWithDot == {"1", "2", "5", "."}

\* [0-9], of the characters the measure strings have.
DigitClass == {"1", "2", "5"}

\* unicode.IsSpace, the characters strings.TrimSpace removes.
IsSpace(c) == c \in {" ", "\n"}

\* \s, of the characters the measure strings have.
SpaceClass == {" ", "\n"}

\* . (any character but a line feed)
ReDot(c) == c # "\n"

\* strings.TrimSpace
TrimSpace(s) ==
  LET keep == {i \in 1..Len(s) : ~IsSpace(s[i])}
  IN IF keep = {} THEN <<>>
     ELSE SubSeq(s, CHOOSE i \in keep : \A j \in keep : i <= j,
                    CHOOSE i \in keep : \A j \in keep : j <= i)

\* Variant: the string is compared as it is.
ToLowerKeepingCase(s) == s

\* strings.ToLower
ToLower(s) ==
  [i \in 1..Len(s) |-> IF s[i] = "O" THEN "o" ELSE IF s[i] = "R" THEN "r" ELSE s[i]]

\* strings.Contains
Contains(s, sub) ==
  \E i \in 1..(Len(s) - Len(sub) + 1) : SubSeq(s, i, i + Len(sub) - 1) = sub

\* The number of characters of the class that s has from index i on: what
\* a greedy repetition of the class takes.
RunLen(class, s, i) ==
  IF i > Len(s) THEN 0
  ELSE LET stops == {j \in i..Len(s) : s[j] \notin class}
       IN IF stops = {} THEN Len(s) - i + 1
          ELSE (CHOOSE j \in stops : \A k \in stops : j <= k) - i

\* The character at index i, "" past the end.
At(s, i) == IF i \in 1..Len(s) THEN s[i] ELSE ""

\* hi, hi - 1, .., lo: the ends a greedy repetition tries, longest first.
Down(hi, lo) == [j \in 1..(hi - lo + 1) |-> hi - j + 1]

\* [0-9]+/[0-9]+ from index i: the indexes at which it can end, in the order
\* the matcher prefers them.
FractionEnds(s, i) ==
  LET m1 == RunLen(DigitClass, s, i)
      m2 == RunLen(DigitClass, s, i + m1 + 1)
  IN IF m1 >= 1 /\ At(s, i + m1) = "/" /\ m2 >= 1
     THEN Down(i + m1 + m2, i + m1 + 1)
     ELSE <<>>

\* [0-9]+(?:\s+[0-9]+/[0-9]+)? , the first alternative of the group.
MixedEnds(s) ==
  LET n == RunLen(DigitClass, s, 1)
      w == RunLen(SpaceClass, s, n + 1)
  IN IF n = 0 THEN <<>>
     ELSE (IF w >= 1 THEN FractionEnds(s, n + w + 1) ELSE <<>>) \o Down(n, 1)

\* [0-9]+/[0-9]+ , the second alternative.
SimpleEnds(s) == FractionEnds(s, 1)

\* [0-9]+(?:\.[0-9]+)? , the third alternative.
DecimalEnds(s) ==
  LET n == RunLen(DigitClass, s, 1)
      m == RunLen(DigitClass, s, n + 2)
  IN IF n = 0 THEN <<>>
     ELSE (IF At(s, n + 1) = "." /\ m >= 1 THEN Down(n + 1 + m, n + 2) ELSE <<>>)
            \o Down(n, 1)

\* The ends of the first group in the order of preference: the alternatives
\* left to right, each longest first.
TokenEnds(s) == MixedEnds(s) \o SimpleEnds(s) \o DecimalEnds(s)

\* (?:\s*)(.*)$ after a token that ends at e: the blanks are taken, and the
\* rest must reach the end of the string without a line feed.
RestStart(s, e) == e + RunLen(SpaceClass, s, e + 1) + 1

TailMatches(s, e) == \A j \in RestStart(s, e)..Len(s) : ReDot(s[j])

\* re.FindStringSubmatch(s): the first end in the order of preference whose
\* tail matches; nil when there is none.
FindStringSubmatch(s) ==
  LET ends == TokenEnds(s)
      good == {j \in 1..Len(ends) : TailMatches(s, ends[j])}
  IN IF good = {} THEN [matched |-> FALSE, token |-> <<>>, rest |-> <<>>]
     ELSE LET e == ends[CHOOSE j \in good : \A k \in good : j <= k]
          IN [matched |-> TRUE, token |-> SubSeq(s, 1, e),
              rest |-> SubSeq(s, RestStart(s, e), Len(s))]

\* Variant: the test for the empty string is left out.
parseMeasureNoEmptyTest(m) ==
  LET s == TrimSpace(m)
  IN IF Contains(s, <<"(">>) \/ Contains(ToLower(s), <<" ", "o", "r", " ">>)
     THEN [quantity |-> Ptr(s), unit |-> NilStr]
     ELSE LET mparts == FindStringSubmatch(s)
              q == TrimSpace(mparts.token)
              u == TrimSpace(mparts.rest)
          IN IF mparts.matched
             THEN IF u = <<>> THEN [quantity |-> Ptr(q), unit |-> NilStr]
                  ELSE [quantity |-> Ptr(q), unit |-> Ptr(u)]
             ELSE [quantity |-> Ptr(s), unit |-> NilStr]

\* parseMeasure(m)
parseMeasure(m) ==
  LET s == TrimSpace(m)
  IN IF s = <<>> THEN [quantity |-> NilStr, unit |-> NilStr]
     ELSE IF Contains(s, <<"(">>) \/ Contains(ToLower(s), <<" ", "o", "r", " ">>)
     THEN [quantity |-> Ptr(s), unit |-> NilStr]
     ELSE LET mparts == FindStringSubmatch(s)
              q == TrimSpace(mparts.token)
              u == TrimSpace(mparts.rest)
          IN IF mparts.matched
             THEN IF u = <<>> THEN [quantity |-> Ptr(q), unit |-> NilStr]
                  ELSE [quantity |-> Ptr(q), unit |-> Ptr(u)]
             ELSE [quantity |-> Ptr(s), unit |-> NilStr]

\* q, u := parseMeasure(ing.Measure), in the loop over the ingredients.
ParseMeasureCall ==
  /\ ~qu.called
  /\ LET r == parseMeasure(measure)
     IN qu' = [called |-> TRUE, quantity |-> r.quantity, unit |-> r.unit]
  /\ UNCHANGED <<file, store, meals, cache, populated, clock, mongoUp, redisUp, runs,
                 ret, logLine, measure, sqlvars>>

\* ImportMealHandler, for one ingredient of the request: its Measure is any
\* of the measure strings.
InitParse ==
  /\ file = <<>>
  /\ store = NoStore
  /\ meals = EmptyMap
  /\ cache = EmptyMap
  /\ populated = EmptyMap
  /\ clock = 0
  /\ mongoUp = TRUE
  /\ redisUp = TRUE
  /\ runs = 0
  /\ ret = NoRet
  /\ logLine = NoLog
  /\ measure \in Measures
  /\ qu = NotParsed
  /\ db = EmptyDB
  /\ req = NoReq
  /\ resp = NoResp
  /\ requests = 0
  /\ calls = NoCalls

NextParse == ParseMeasureCall

SpecParse == InitParse /\ [][NextParse]_vars

\* ------------------------------------------------- claims on parseMeasure
\* The trimmed measure, and the text of it from index i on, trimmed: the unit
\* the claims expect, absent when nothing is left.
Trimmed == TrimSpace(measure)

UnitFrom(i) ==
  LET u == TrimSpace(SubSeq(Trimmed, i, Len(Trimmed)))
  IN IF u = <<>> THEN NilStr ELSE Ptr(u)

\* The number of decimal digits s has from index i on.
DigitsAt(s, i) == RunLen({"0", "1", "2", "3", "4", "5", "6", "7", "8", "9"}, s, i)

\* s contains a parenthesis, or " or " in any letter case.
IsCompound(s) ==
  \/ \E i \in 1..Len(s) : s[i] = "("
  \/ \E i \in 1..(Len(s) - 3) :
       /\ s[i] = " "
       /\ s[i + 1] \in {"o", "O"}
       /\ s[i + 2] \in {"r", "R"}
       /\ s[i + 3] = " "

\* The length of the simple fraction <int>/<int> s starts with, 0 when it
\* starts with none; the same for a decimal <digits>.<digits> and a mixed
\* number <int> <int>/<int>.
FractionLen(s) ==
  LET n == DigitsAt(s, 1)
      m == DigitsAt(s, n + 2)
  IN IF n >= 1 /\ At(s, n + 1) = "/" /\ m >= 1 THEN n + 1 + m ELSE 0

DecimalLen(s) ==
  LET n == DigitsAt(s, 1)
      m == DigitsAt(s, n + 2)
  IN IF n >= 1 /\ At(s, n + 1) = "." /\ m >= 1 THEN n + 1 + m ELSE 0

MixedLen(s) ==
  LET n == DigitsAt(s, 1)
      w == RunLen({" ", "\n"}, s, n + 1)
      f == FractionLen(SubSeq(s, n + w + 1, Len(s)))
  IN IF n >= 1 /\ w >= 1 /\ f >= 1 THEN n + w + f ELSE 0

\* C14 as claimed: for a measure without parenthesis and " or " whose trimmed
\* form starts with a simple fraction, the quantity is the fraction and the
\* unit is the trimmed text after it, absent when there is none.
C14_SimpleFractionIsQuantity ==
  (qu.called /\ ~IsCompound(Trimmed) /\ FractionLen(Trimmed) >= 1)
  => /\ qu.quantity = Ptr(SubSeq(Trimmed, 1, FractionLen(Trimmed)))
     /\ qu.unit = UnitFrom(FractionLen(Trimmed) + 1)

\* C15 as claimed: for a measure without parenthesis and " or " whose trimmed
\* form starts with an integer (and not with a simple fraction or a decimal)
\* or with a mixed number, the quantity is the mixed number when there is
\* one, the integer otherwise, and the unit is the trimmed text after it,
\* absent when there is none.
C15_IntegerOrMixedIsQuantity ==
  (/\ qu.called
   /\ ~IsCompound(Trimmed)
   /\ DigitsAt(Trimmed, 1) >= 1
   /\ FractionLen(Trimmed) = 0
   /\ DecimalLen(Trimmed) = 0)
  => LET len == IF MixedLen(Trimmed) >= 1 THEN MixedLen(Trimmed)
                ELSE DigitsAt(Trimmed, 1)
     IN /\ qu.quantity = Ptr(SubSeq(Trimmed, 1, len))
        /\ qu.unit = UnitFrom(len + 1)

\* C16 as claimed: for a measure without parenthesis and " or " whose trimmed
\* form starts with a decimal, the quantity is the decimal and the unit is
\* the trimmed text after it, with or without a blank between them, absent
\* when there is none.
C16_DecimalIsQuantity ==
  (qu.called /\ ~IsCompound(Trimmed) /\ DecimalLen(Trimmed) >= 1)
  => /\ qu.quantity = Ptr(SubSeq(Trimmed, 1, DecimalLen(Trimmed)))
     /\ qu.unit = UnitFrom(DecimalLen(Trimmed) + 1)

\* C17: when the trimmed measure contains a parenthesis, or " or " in any
\* letter case, the quantity is the whole trimmed measure and there is no
\* unit, also when the measure starts with a number.
C17_CompoundIsAllQuantity ==
  (qu.called /\ IsCompound(Trimmed))
  => /\ qu.quantity = Ptr(Trimmed)
     /\ qu.unit = NilStr

\* C17 witness: a measure that starts with a digit and contains " OR " in
\* capitals was returned whole as the quantity.
C17_Witness ==
  /\ qu.called
  /\ DigitsAt(Trimmed, 1) >= 1
  /\ Contains(Trimmed, <<" ", "O", "R", " ">>)
  /\ ~Contains(Trimmed, <<"(">>)
  /\ qu.quantity = Ptr(Trimmed)
  /\ qu.unit = NilStr

\* The measure is empty or made of blanks and line feeds only.
IsBlank(s) == \A i \in 1..Len(s) : s[i] \in {" ", "\n"}

\* C18: quantity and unit are both absent exactly when the measure is empty
\* or blank; for every other measure the quantity is present.
C18_AbsentExactlyWhenBlank ==
  qu.called
  => /\ (qu.quantity.nil /\ qu.unit.nil) <=> IsBlank(measure)
     /\ ~IsBlank(measure) => ~qu.quantity.nil

\* C18 witness: a measure of two or more blanks and line feeds, one of them
\* a line feed, gave neither quantity nor unit.
C18_Witness ==
  /\ qu.called
  /\ Len(measure) >= 2
  /\ \E i \in 1..Len(measure) : measure[i] = "\n"
  /\ qu.quantity = NilStr
  /\ qu.unit = NilStr

\* parseMeasure returned a pair of *string: each nil, or a pointer to a
\* string that is not empty.
IsResult(r) ==
  /\ r.quantity.nil => r.quantity = NilStr
  /\ r.unit.nil => r.unit = NilStr
  /\ ~r.unit.nil => r.unit.s # <<>>

\* C19 as claimed: every measure has a result; when the trimmed measure does
\* not start with a digit, the quantity is the whole trimmed measure and
\* there is no unit; and there is no unit without a quantity.
C19_NonNumericIsAllQuantity ==
  qu.called
  => /\ IsResult(qu)
     /\ DigitsAt(Trimmed, 1) = 0
          => (qu.quantity = Ptr(Trimmed) /\ qu.unit = NilStr)
     /\ ~qu.unit.nil => ~qu.quantity.nil

\* C19 amended: the same, for the measures that are not blank; a blank
\* measure gives no quantity, not the empty string as quantity.
C19_NonNumericNonBlankIsAllQuantity ==
  qu.called
  => /\ IsResult(qu)
     /\ (DigitsAt(Trimmed, 1) = 0 /\ ~IsBlank(measure))
          => (qu.quantity = Ptr(Trimmed) /\ qu.unit = NilStr)
     /\ IsBlank(measure) => (qu.quantity = NilStr /\ qu.unit = NilStr)
     /\ ~qu.unit.nil => ~qu.quantity.nil

\* C19 witness: a measure that starts with a dot followed by digits and a
\* letter was returned whole as the quantity.
C19_Witness ==
  /\ qu.called
  /\ Len(Trimmed) >= 3
  /\ Trimmed[1] = "."
  /\ DigitsAt(Trimmed, 2) >= 1
  /\ ~IsCompound(Trimmed)
  /\ qu.quantity = Ptr(Trimmed)
  /\ qu.unit = NilStr

\* ====================================================== the recipe handlers
\* ------------------------------------------------------------- database/sql
\* tx, err := db.Begin(): a transaction works on its own view of the
\* database; the database changes when the transaction commits.
Begin(d) == [db |-> d, view |-> d, done |-> FALSE]

\* tx.Exec(`INSERT INTO table ...`): the row is added to the transaction's
\* view under the next rowid.
TxExecAutocommit(tx, table, row) ==
  LET stored == [id |-> Len(tx.view[table]) + 1] @@ row
  IN [tx EXCEPT !.view[table] = Append(@, stored), !.db[table] = Append(@, stored)]

TxExec(tx, table, row) ==
  [tx EXCEPT !.view[table] = Append(@, [id |-> Len(@) + 1] @@ row)]

\* res.LastInsertId()
LastInsertId(tx, table) == Len(tx.view[table])

\* tx.Rollback(): the view is dropped; ErrTxDone, and nothing else, on a
\* transaction that is over.
TxRollback(tx) ==
  IF tx.done THEN tx ELSE [tx EXCEPT !.view = tx.db, !.done = TRUE]

\* tx.Commit(): the view becomes the database; a commit that fails ends the
\* transaction without it.
TxCommit(tx, ok) ==
  IF tx.done THEN tx
  ELSE IF ok THEN [db |-> tx.view, view |-> tx.view, done |-> TRUE]
  ELSE [tx EXCEPT !.view = tx.db, !.done = TRUE]

\* -------------------------------------------------------- ImportMealHandler
\* The ingredients and the bodies of the requests: a title (required, so the
\* body with the empty title does not bind) and up to MaxIngredients
\* ingredients; the optional fields of the recipe are absent.
ImportIngredients ==
  {[name |-> "Salt", measure |-> <<"1", "/", "2", " ", "c">>],
   [name |-> "Egg", measure |-> <<>>]}

IngredientLists == UNION {[1..n -> ImportIngredients] : n \in 0..MaxIngredients}

ImportBodies ==
  {[title |-> t, description |-> NilStr, instructions |-> NilStr, youtube_link |-> NilStr,
    servings |-> NilStr, prep_time |-> NilStr, cook_time |-> NilStr, ingredients |-> l] :
     t \in {"", "Soup"}, l \in IngredientLists}

\* parseMeasure on the measures of these ingredients, computed once.
ParsedMeasure == [m \in {ing.measure : ing \in ImportIngredients} |-> parseMeasure(m)]

\* The call of the handler that fails, if any: db.Begin, the insert of the
\* recipe, LastInsertId, the insert of ingredient i, or tx.Commit.
FailPoints ==
  {[step |-> st, i |-> 0] : st \in {"none", "begin", "recipe", "lastid", "commit"}}
  \cup {[step |-> "ingredient", i |-> k] : k \in 1..MaxIngredients}

\* c.ShouldBindJSON(&req): Title is required.
ShouldBindJSON(body) == body.title # ""

\* c.JSON(status, ...), with the line the handler logged before it.
Resp(status, error, log, id) ==
  [status |-> status, error |-> error, recipe_id |-> id, log |-> log]

\* The columns of the INSERT INTO recipes.
RecipeRow(body) ==
  [title |-> body.title, description |-> body.description, instructions |-> body.instructions,
   youtube_link |-> body.youtube_link, servings |-> body.servings,
   prep_time |-> body.prep_time, cook_time |-> body.cook_time]

\* The columns of the INSERT INTO recipe_ingredients, with the q, u that
\* parseMeasure returned.
IngredientRow(recipeID, ing, r) ==
  [recipe_id |-> recipeID, name |-> ing.name, quantity |-> r.quantity, unit |-> r.unit]

\* The loop over req.Ingredients from ingredient i on: the measure is parsed,
\* the row inserted; the insert that fails rolls the transaction back and
\* ends the loop.
RECURSIVE InsertIngredients(_, _, _, _, _)
InsertIngredients(tx, recipeID, ings, i, failAt) ==
  IF i > Len(ings) THEN [tx |-> tx, failed |-> FALSE]
  ELSE IF failAt.step = "ingredient" /\ failAt.i = i
  THEN [tx |-> TxRollback(tx), failed |-> TRUE]
  ELSE InsertIngredients(
         TxExec(tx, "recipe_ingredients",
                IngredientRow(recipeID, ings[i], ParsedMeasure[ings[i].measure])),
         recipeID, ings, i + 1, failAt)

\* defer func() { if err != nil { tx.Rollback() } }(), with the handler's err
\* (the err of the ingredient inserts and of the commit are variables of
\* their own).
Deferred(tx, err) == IF err THEN TxRollback(tx) ELSE tx

\* The handler after the loop over the ingredients: the commit and the
\* response.
CommitAndRespond(loop, recipeID, failAt) ==
  IF loop.failed
  THEN [db |-> Deferred(loop.tx, FALSE).db,
        resp |-> Resp(500, "failed to insert ingredient",
                      "failed to insert ingredient (import)", 0)]
  ELSE IF failAt.step = "commit"
  THEN [db |-> Deferred(TxCommit(loop.tx, FALSE), FALSE).db,
        resp |-> Resp(500, "failed to commit", "failed to commit import tx", 0)]
  ELSE [db |-> Deferred(TxCommit(loop.tx, TRUE), FALSE).db,
        resp |-> Resp(201, "", "", recipeID)]

\* The handler after the insert of the recipe: LastInsertId, the loop and
\* what follows it.
InsertAndRespond(inserted, recipeID, body, failAt) ==
  IF failAt.step = "lastid"
  THEN [db |-> Deferred(TxRollback(inserted), TRUE).db,
        resp |-> Resp(500, "failed to get id", "failed to lastinsertid (import)", 0)]
  ELSE CommitAndRespond(InsertIngredients(inserted, recipeID, body.ingredients, 1, failAt),
                        recipeID, failAt)

\* The handler after db.Begin: the insert of the recipe and what follows it.
ExecAndRespond(tx, inserted, body, failAt) ==
  IF failAt.step = "recipe"
  THEN [db |-> Deferred(TxRollback(tx), TRUE).db,
        resp |-> Resp(500, "failed to insert recipe", "failed to insert recipe (import)", 0)]
  ELSE InsertAndRespond(inserted, LastInsertId(inserted, "recipes"), body, failAt)

\* The handler on database d: the database it leaves and its response.
ImportMeal(d, body, failAt) ==
  IF ~ShouldBindJSON(body)
  THEN [db |-> d, resp |-> Resp(400, "invalid body", "", 0)]
  ELSE IF failAt.step = "begin"
  THEN [db |-> d, resp |-> Resp(500, "failed to begin tx", "", 0)]
  ELSE ExecAndRespond(Begin(d), TxExec(Begin(d), "recipes", RecipeRow(body)), body, failAt)

\* POST /v1/recipes/import-from-meal
ImportMealHandler(body, failAt) ==
  /\ requests < MaxRequests
  /\ req' = body
  /\ LET r == ImportMeal(db, body, failAt)
     IN /\ db' = r.db
        /\ resp' = r.resp
  /\ requests' = requests + 1
  /\ UNCHANGED <<file, store, meals, cache, populated, clock, mongoUp, redisUp, runs,
                 ret, logLine, measure, qu, calls>>

\* The server with its SQLite database, taking import requests.
InitImportMeal ==
  /\ file = <<>>
  /\ store = NoStore
  /\ meals = EmptyMap
  /\ cache = EmptyMap
  /\ populated = EmptyMap
  /\ clock = 0
  /\ mongoUp = TRUE
  /\ redisUp = TRUE
  /\ runs = 0
  /\ ret = NoRet
  /\ logLine = NoLog
  /\ measure = <<>>
  /\ qu = NotParsed
  /\ db = EmptyDB
  /\ req = NoReq
  /\ resp = NoResp
  /\ requests = 0
  /\ calls = NoCalls

NextImportMeal == \E body \in ImportBodies, failAt \in FailPoints : ImportMealHandler(body, failAt)

SpecImportMeal == InitImportMeal /\ [][NextImportMeal]_vars

\* ---------------------------------------------- claim on ImportMealHandler
\* The rows of a table that a step added after the rows it had before; <<>>
\* if the step changed or removed one of those.
Added(table) ==
  IF /\ Len(db'[table]) >= Len(db[table])
     /\ SubSeq(db'[table], 1, Len(db[table])) = db[table]
  THEN SubSeq(db'[table], Len(db[table]) + 1, Len(db'[table]))
  ELSE <<>>

\* C21: ImportMealHandler is all-or-nothing. A call that responds with
\* anything but 201 leaves the recipes and the recipe_ingredients tables as
\* they were; a call that responds 201 has added one recipe row, with the
\* request's title and the id of the response, and after the rows that were
\* there one ingredient row per ingredient of the request, in request order,
\* each with that recipe id.
C21_ImportIsAllOrNothing ==
  [][(\E failAt \in FailPoints : ImportMealHandler(req', failAt))
     => /\ resp'.status # 201 => db' = db
        /\ resp'.status = 201
           => /\ Len(Added("recipes")) = 1
              /\ Added("recipes")[1].title = req'.title
              /\ Added("recipes")[1].id = resp'.recipe_id
              /\ Len(db'.recipes) = Len(db.recipes) + 1
              /\ Len(db'.recipe_ingredients)
                   = Len(db.recipe_ingredients) + Len(req'.ingredients)
              /\ Len(Added("recipe_ingredients")) = Len(req'.ingredients)
              /\ \A j \in 1..Len(req'.ingredients) :
                   /\ Added("recipe_ingredients")[j].name = req'.ingredients[j].name
                   /\ Added("recipe_ingredients")[j].recipe_id = resp'.recipe_id]_vars

\* C21 witness: after an import of two ingredients that was committed, a
\* second import failed at its commit, and the tables hold the rows of the
\* first only.
C21_Witness ==
  /\ requests = 2
  /\ resp.status = 500
  /\ resp.error = "failed to commit"
  /\ Len(db.recipes) = 1
  /\ Len(db.recipe_ingredients) = 2
  /\ db.recipe_ingredients[1].name = "Salt"
  /\ db.recipe_ingredients[2].name = "Egg"

\* ------------------------------------------------------ the update handlers
\* UpdateIngredientHandler, UpdateMealPlanHandler and
\* UpdateMealPlanRecipeHandler: the table each works on and the three columns
\* its request can carry.
Handlers == {"UpdateIngredientHandler", "UpdateMealPlanHandler", "UpdateMealPlanRecipeHandler"}

Table(h) ==
  CASE h = "UpdateIngredientHandler" -> "recipe_ingredients"
    [] h = "UpdateMealPlanHandler" -> "meal_plans"
    [] h = "UpdateMealPlanRecipeHandler" -> "meal_plan_recipes"

Columns(h) ==
  CASE h = "UpdateIngredientHandler" -> <<"name", "quantity", "unit">>
    [] h = "UpdateMealPlanHandler" -> <<"name", "start_date", "end_date">>
    [] h = "UpdateMealPlanRecipeHandler" -> <<"recipe_id", "meal_type", "planned_date">>

\* The columns the struct of the row holds by value (string): the patch
\* copies what the request's pointer points to; the other columns hold the
\* pointer.
ValueColumns(h) ==
  CASE h = "UpdateIngredientHandler" -> {"name"}
    [] h = "UpdateMealPlanHandler" -> {"name", "start_date", "end_date"}
    [] h = "UpdateMealPlanRecipeHandler" -> {}

\* What client r puts in a field of its request.
Supplied(h, c, r) ==
  CASE h = "UpdateIngredientHandler" /\ c = "name" -> Ptr(IF r = 1 THEN "Pepper" ELSE "Thyme")
    [] h = "UpdateIngredientHandler" /\ c = "quantity" -> Ptr(IF r = 1 THEN <<"1">> ELSE <<"2">>)
    [] h = "UpdateIngredientHandler" /\ c = "unit" -> Ptr(IF r = 1 THEN <<"g">> ELSE <<"l">>)
    [] h = "UpdateMealPlanHandler" /\ c = "name" -> Ptr(IF r = 1 THEN "Week 1" ELSE "Week 2")
    [] h = "UpdateMealPlanHandler" /\ c = "start_date"
         -> Ptr(IF r = 1 THEN "2025-01-06" ELSE "2025-01-13")
    [] h = "UpdateMealPlanHandler" /\ c = "end_date"
         -> Ptr(IF r = 1 THEN "2025-01-12" ELSE "2025-01-19")
    [] h = "UpdateMealPlanRecipeHandler" /\ c = "recipe_id" -> Ptr(r + 1)
    [] h = "UpdateMealPlanRecipeHandler" /\ c = "meal_type"
         -> Ptr(IF r = 1 THEN <<"l", "u", "n", "c", "h">> ELSE <<"s", "n", "a", "c", "k">>)
    [] h = "UpdateMealPlanRecipeHandler" /\ c = "planned_date"
         -> Ptr(IF r = 1 THEN <<"0", "6">> ELSE <<"1", "3">>)

\* A field of the request that is nil: no string, no characters, no number.
NilField(h, c) ==
  IF c \in ValueColumns(h) THEN [nil |-> TRUE, s |-> ""]
  ELSE IF c = "recipe_id" THEN [nil |-> TRUE, s |-> 0]
  ELSE NilStr

\* The bodies of the update requests of client r: the fields that are there,
\* by their position in Columns; the others are nil after the bind. A body
\* that is no JSON does not bind.
FieldSets == {{}, {1}, {2}, {2, 3}}

UpdateBodies(h, r) ==
  {[malformed |-> FALSE,
    fields |-> [c \in {Columns(h)[i] : i \in 1..3} |->
                  IF \E i \in F : Columns(h)[i] = c THEN Supplied(h, c, r)
                  ELSE NilField(h, c)]] :
     F \in FieldSets}
  \cup {[malformed |-> TRUE,
          fields |-> [c \in {Columns(h)[i] : i \in 1..3} |-> NilField(h, c)]]}

\* strconv.Atoi(c.Param("id")) on the ids the requests carry.
IdParams == {"1", "2", "0", "x"}
Atoi(idStr) ==
  CASE idStr = "0" -> [ok |-> TRUE, n |-> 0]
    [] idStr = "1" -> [ok |-> TRUE, n |-> 1]
    [] idStr = "2" -> [ok |-> TRUE, n |-> 2]
    [] OTHER -> [ok |-> FALSE, n |-> 0]

\* db.QueryRow(`SELECT ... WHERE id = ?`).Scan(...): the rows of the table
\* with that id.
QueryRow(d, table, id) ==
  LET WhereId(row) == row.id = id
  IN SelectSeq(d[table], WhereId)

\* "Apply patch": a field of the request that is not nil replaces the field
\* of the loaded row.
ApplyPatch(h, current, fields) ==
  [c \in DOMAIN current |->
     IF c \in DOMAIN fields /\ ~fields[c].nil
     THEN IF c \in ValueColumns(h) THEN fields[c].s ELSE fields[c]
     ELSE current[c]]

\* db.Exec(`UPDATE table SET c1 = ?, c2 = ?, c3 = ? WHERE id = ?`) with the
\* three columns of the patched row.
ExecUpdate(d, h, patched, id) ==
  [d EXCEPT ![Table(h)] =
     [k \in DOMAIN @ |->
        IF @[k].id = id
        THEN [c \in DOMAIN @[k] |->
                IF \E i \in 1..3 : Columns(h)[i] = c THEN patched[c] ELSE @[k][c]]
        ELSE @[k]]]

\* The first half of a handler, for client r: the id and the body are read
\* and the row is loaded.
LoadExisting(r, h, idStr, body, fail) ==
  /\ calls[r].pc \in {"idle", "done"}
  /\ requests < MaxRequests
  /\ requests' = requests + 1
  /\ LET id == Atoi(idStr)
         rows == QueryRow(db, Table(h), id.n)
         call == [pc |-> "done", handler |-> h, id |-> id.n, body |-> body,
                  current |-> <<>>, status |-> 0]
     IN calls' = [calls EXCEPT ![r] =
          IF ~id.ok \/ id.n <= 0 THEN [call EXCEPT !.status = 400]
          ELSE IF body.malformed THEN [call EXCEPT !.status = 400]
          ELSE IF fail THEN [call EXCEPT !.status = 500]
          ELSE IF rows = <<>> THEN [call EXCEPT !.status = 404]
          ELSE [call EXCEPT !.pc = "loaded", !.current = rows[1]]]
  /\ UNCHANGED <<file, store, meals, cache, populated, clock, mongoUp, redisUp, runs,
                 ret, logLine, measure, qu, db, req, resp>>

\* The second half: the patch is applied to the loaded row, the row is
\* written and the patched row is the response.
UpdateRow(r, fail) ==
  /\ calls[r].pc = "loaded"
  /\ LET call == calls[r]
         patched == ApplyPatch(call.handler, call.current, call.body.fields)
     IN IF fail
        THEN /\ calls' = [calls EXCEPT ![r].pc = "done", ![r].current = patched,
                                       ![r].status = 500]
             /\ db' = db
        ELSE /\ calls' = [calls EXCEPT ![r].pc = "done", ![r].current = patched,
                                       ![r].status = 200]
             /\ db' = ExecUpdate(db, call.handler, patched, call.id)
  /\ UNCHANGED <<file, store, meals, cache, populated, clock, mongoUp, redisUp, runs,
                 ret, logLine, measure, qu, req, resp, requests>>

\* PUT /v1/ingredients/:id
UpdateIngredientHandler(r) ==
  \/ \E idStr \in IdParams, body \in UpdateBodies("UpdateIngredientHandler", r),
        fail \in BOOLEAN : LoadExisting(r, "UpdateIngredientHandler", idStr, body, fail)
  \/ /\ calls[r].handler = "UpdateIngredientHandler"
     /\ \E fail \in BOOLEAN : UpdateRow(r, fail)

\* PUT /v1/meal-plans/:id
UpdateMealPlanHandler(r) ==
  \/ \E idStr \in IdParams, body \in UpdateBodies("UpdateMealPlanHandler", r),
        fail \in BOOLEAN : LoadExisting(r, "UpdateMealPlanHandler", idStr, body, fail)
  \/ /\ calls[r].handler = "UpdateMealPlanHandler"
     /\ \E fail \in BOOLEAN : UpdateRow(r, fail)

\* PUT /v1/plan-recipes/:id
UpdateMealPlanRecipeHandler(r) ==
  \/ \E idStr \in IdParams, body \in UpdateBodies("UpdateMealPlanRecipeHandler", r),
        fail \in BOOLEAN : LoadExisting(r, "UpdateMealPlanRecipeHandler", idStr, body, fail)
  \/ /\ calls[r].handler = "UpdateMealPlanRecipeHandler"
     /\ \E fail \in BOOLEAN : UpdateRow(r, fail)

\* The server with a database that holds a recipe with its ingredients, a
\* meal plan and a recipe planned in it, taking update requests from the
\* clients.
StoredDB ==
  [ImportMeal(EmptyDB,
              [title |-> "Soup", description |-> NilStr, instructions |-> NilStr,
               youtube_link |-> NilStr, servings |-> NilStr, prep_time |-> NilStr,
               cook_time |-> NilStr,
               ingredients |-> <<[name |-> "Salt", measure |-> <<"1", "/", "2", " ", "c">>]>>],
              [step |-> "none", i |-> 0]).db
   EXCEPT !.meal_plans = <<[id |-> 1, name |-> "Week 0", start_date |-> "2024-12-30",
                            end_date |-> "2025-01-05", created_at |-> NilStr]>>,
          !.meal_plan_recipes = <<[id |-> 1, meal_plan_id |-> 1, recipe_id |-> Ptr(1),
                                   meal_type |-> Ptr(<<"d", "i", "n", "n", "e", "r">>),
                                   planned_date |-> Ptr(<<"3", "0">>)]>>]

InitUpdate ==
  /\ file = <<>>
  /\ store = NoStore
  /\ meals = EmptyMap
  /\ cache = EmptyMap
  /\ populated = EmptyMap
  /\ clock = 0
  /\ mongoUp = TRUE
  /\ redisUp = TRUE
  /\ runs = 0
  /\ ret = NoRet
  /\ logLine = NoLog
  /\ measure = <<>>
  /\ qu = NotParsed
  /\ db = StoredDB
  /\ req = NoReq
  /\ resp = NoResp
  /\ requests = 0
  /\ calls = NoCalls

NextUpdate ==
  \E r \in Clients :
    \/ UpdateIngredientHandler(r)
    \/ UpdateMealPlanHandler(r)
    \/ UpdateMealPlanRecipeHandler(r)

SpecUpdate == InitUpdate /\ [][NextUpdate]_vars

\* ---------------------------------------------- claim on the update handlers
\* The fields the request of client r carries, and what the row holds in a
\* column after a request has set it from such a field.
FieldsOf(r) ==
  {c \in DOMAIN calls[r].body.fields : ~calls[r].body.fields[c].nil}

StoredAs(h, c, v) == IF c \in ValueColumns(h) THEN v.s ELSE v

\* C22: no update is lost. When the two clients' requests to the same
\* handler for the same row, carrying disjoint sets of fields, have both
\* been answered 200, the row holds in every column one of them carried the
\* value that request carried.
C22_NoLostUpdate ==
  (/\ calls[1].pc = "done" /\ calls[1].status = 200
   /\ calls[2].pc = "done" /\ calls[2].status = 200
   /\ calls[1].handler = calls[2].handler
   /\ calls[1].id = calls[2].id
   /\ FieldsOf(1) \cap FieldsOf(2) = {})
  => \A r \in Clients : \A c \in FieldsOf(r) :
       \A k \in DOMAIN db[Table(calls[r].handler)] :
         db[Table(calls[r].handler)][k].id = calls[r].id
         => db[Table(calls[r].handler)][k][c]
              = StoredAs(calls[r].handler, c, calls[r].body.fields[c])

====
